---- MODULE Spec2Model ----
(***************************************************************************)
(* libmussh: the plan resolver (src/src/config.rs, Mussh::to_host_map) and *)
(* the thread-per-host execution engine (src/src/ssh.rs,                   *)
(* Multiplex::multiplex).                                                  *)
(*                                                                         *)
(* A Rust String is a sequence of one-character symbols, so "!m1" is       *)
(* <<"!", "m", "1">> here written with one symbol per name: <<"!", "a">>.  *)
(* An Option<T> is a sequence of length 0 (None) or 1 (Some(v)).           *)
(* An IndexSet<T> is a duplicate-free sequence; an IndexMap<K, V> is a     *)
(* sequence of <<key, value>> pairs with distinct keys, in insertion order.*)
(* A BTreeMap<K, V> is a function whose DOMAIN is the key set; its keys()  *)
(* iterate in ascending key order.                                         *)
(***************************************************************************)
EXTENDS Naturals, Sequences, FiniteSets, TLC

\* ------------------------------------------------------------------ bounds

\* longest selector (token list of -h, -s, -c or -y) drawn by SpecPlan
MaxSel == 2
\* longest hostnames list of the variable hostlist drawn by SpecPlan
MaxNames == 2
\* longest alias list of a host drawn by SpecPlan
MaxAlias == 2
\* longest token list with repeated tokens drawn by SpecPlan
MaxDup == 3

\* the longest duration drawn, in whole hours
MaxHours == 25

\* std::time: nanoseconds per millisecond, milliseconds per second
NanosPerMilli == 1000000

MillisPerSec == 1000

\* ------------------------------------------------------------ generic helpers

None == << >>

Some(v) == << v >>

Range(s) == { s[i] : i \in 1..Len(s) }

RECURSIVE SeqsUpTo(_, _)
SeqsUpTo(S, n) ==
    IF n = 0 THEN { << >> }
    ELSE LET shorter == SeqsUpTo(S, n - 1)
         IN  shorter \cup { Append(s, x) : s \in { t \in shorter : Len(t) = n - 1 }, x \in S }

\* Iterator::flat_map / filter_map over a sequence: F(x) is a sequence (a Vec or an Option)
RECURSIVE FlatMap(_, _)
FlatMap(F(_), s) ==
    IF s = << >> THEN << >> ELSE F(Head(s)) \o FlatMap(F, Tail(s))

Keys(m) == [ i \in 1..Len(m) |-> m[i][1] ]

\* position of the first element equal to x, 0 when there is none
IndexOf(s, x) ==
    IF x \in Range(s) THEN CHOOSE i \in 1..Len(s) : s[i] = x /\ \A j \in 1..(i - 1) : s[j] # x
    ELSE 0

NoDup(s) == \A i, j \in 1..Len(s) : s[i] = s[j] => i = j

\* ------------------------------------------------------- strings and their order

\* byte order of the characters used: '!' (0x21) sorts before every letter
CharRank(c) ==
    CASE c = "!" -> 0
      [] c = "$" -> 1
      [] c = "a" -> 2
      [] c = "b" -> 3
      [] c = "c" -> 4
      [] c = "g" -> 5
      [] c = "x" -> 6
      [] c = "y" -> 7
      [] c = "z" -> 8

\* Ord for String: lexicographic on the characters
RECURSIVE StrLess(_, _)
StrLess(s, t) ==
    IF t = << >> THEN FALSE
    ELSE IF s = << >> THEN TRUE
    ELSE IF Head(s) = Head(t) THEN StrLess(Tail(s), Tail(t))
    ELSE CharRank(Head(s)) < CharRank(Head(t))

\* BTreeMap::keys(): the keys in ascending order
RECURSIVE SortedKeys(_)
SortedKeys(K) ==
    IF K = {} THEN << >>
    ELSE LET least == CHOOSE k \in K : \A o \in K \ {k} : StrLess(k, o)
         IN  << least >> \o SortedKeys(K \ {least})

BTreeKeys(m) == SortedKeys(DOMAIN m)

\* ------------------------------------------------------- IndexSet and IndexMap

\* IndexSet::from_iter: the first occurrence of every element, in order
RECURSIVE FromIter(_, _)
FromIter(acc, s) ==
    IF s = << >> THEN acc
    ELSE FromIter(IF Head(s) \in Range(acc) THEN acc ELSE Append(acc, Head(s)), Tail(s))

\* mutant: a repeated token keeps the place of its last occurrence
as_set_last_occurrence(s) ==
    LET kept == SelectSeq([ i \in 1..Len(s) |-> << i, s[i] >> ],
                          LAMBDA p : \A j \in (p[1] + 1)..Len(s) : s[j] # p[2])
    IN  [ i \in 1..Len(kept) |-> kept[i][2] ]

as_set(s) == FromIter(<< >>, s)

Contains(set, x) == x \in Range(set)

\* IndexSet::intersection: the elements of the left operand that the right one has
Intersection(left, right) == SelectSeq(left, LAMBDA x : Contains(right, x))

\* IndexMap::insert: replace the value in place, or append a new pair
IndexMapInsert(m, k, v) ==
    IF k \in Range(Keys(m))
    THEN [ i \in 1..Len(m) |-> IF m[i][1] = k THEN << k, v >> ELSE m[i] ]
    ELSE Append(m, << k, v >>)

\* FromIterator for IndexMap: insert the pairs in order
RECURSIVE CollectMap(_, _)
CollectMap(acc, pairs) ==
    IF pairs = << >> THEN acc
    ELSE CollectMap(IndexMapInsert(acc, Head(pairs)[1], Head(pairs)[2]), Tail(pairs))

IndexMapGet(m, k) ==
    IF k \in Range(Keys(m)) THEN Some(m[IndexOf(Keys(m), k)][2]) ELSE None

ContainsKey(m, k) == k \in Range(Keys(m))

\* --------------------------------------------------- utils.rs: selector helpers

unwanted_host(host) ==
    IF Len(host) > 0 /\ Head(host) = "!" THEN Some(Tail(host)) ELSE None

\* the decimal digits format! prints
Digit(d) ==
    CASE d = 0 -> "0" [] d = 1 -> "1" [] d = 2 -> "2" [] d = 3 -> "3" [] d = 4 -> "4"
      [] d = 5 -> "5" [] d = 6 -> "6" [] d = 7 -> "7" [] d = 8 -> "8" [] d = 9 -> "9"

\* format!("{}", n) of an unsigned integer
RECURSIVE Decimal(_)
Decimal(n) ==
    IF n < 10 THEN << Digit(n) >> ELSE Decimal(n \div 10) \o << Digit(n % 10) >>

\* format!("{:0w}", n): zero-padded to at least w digits, never cut
ZeroPad(n, w) ==
    LET d == Decimal(n)
    IN  IF Len(d) >= w THEN d ELSE [ i \in 1..(w - Len(d)) |-> "0" ] \o d

\* Duration::as_secs, Duration::subsec_millis, Duration::as_millis
as_secs(d) == d.secs

subsec_millis(d) == d.nanos \div NanosPerMilli

as_millis(d) == d.secs * MillisPerSec + d.nanos \div NanosPerMilli

\* mutant: the branches from one second on print the total milliseconds
convert_duration_total_millis(d) ==
    LET seconds == as_secs(d)
        millis  == as_millis(d)
    IN  IF seconds < 1
        THEN << "0", "0", ":", "0", "0", ":", "0", "0", "." >> \o ZeroPad(as_millis(d), 3)
        ELSE IF seconds < 60
        THEN << "0", "0", ":", "0", "0", ":" >> \o ZeroPad(seconds, 2) \o << "." >> \o ZeroPad(millis, 3)
        ELSE IF seconds < 3600
        THEN << "0", "0", ":" >> \o ZeroPad(seconds \div 60, 2) \o << ":" >>
             \o ZeroPad(seconds % 60, 2) \o << "." >> \o ZeroPad(millis, 3)
        ELSE IF seconds < 86400
        THEN Decimal((seconds \div 60) \div 60) \o << ":" >> \o ZeroPad((seconds \div 60) % 60, 2)
             \o << ":" >> \o ZeroPad(seconds % 60, 2) \o << "." >> \o ZeroPad(millis, 3)
        ELSE Decimal(seconds) \o << "s" >>

convert_duration(d) ==
    LET seconds == as_secs(d)
        millis  == subsec_millis(d)
    IN  IF seconds < 1
        THEN << "0", "0", ":", "0", "0", ":", "0", "0", "." >> \o ZeroPad(as_millis(d), 3)
        ELSE IF seconds < 60
        THEN << "0", "0", ":", "0", "0", ":" >> \o ZeroPad(seconds, 2) \o << "." >> \o ZeroPad(millis, 3)
        ELSE IF seconds < 3600
        THEN LET minutes  == seconds \div 60
                 seconds_ == seconds % 60
             IN  << "0", "0", ":" >> \o ZeroPad(minutes, 2) \o << ":" >>
                 \o ZeroPad(seconds_, 2) \o << "." >> \o ZeroPad(millis, 3)
        ELSE IF seconds < 86400
        THEN LET total_minutes == seconds \div 60
                 seconds_      == seconds % 60
                 hours         == total_minutes \div 60
                 minutes       == total_minutes % 60
             IN  Decimal(hours) \o << ":" >> \o ZeroPad(minutes, 2) \o << ":" >>
                 \o ZeroPad(seconds_, 2) \o << "." >> \o ZeroPad(millis, 3)
        ELSE Decimal(seconds) \o << "s" >>

\* ------------------------------------------------ config.rs: the plan resolver
\* A configuration cfg is [hostlist, hosts, cmd]: three BTreeMaps keyed by String.
\*   cfg.hostlist[k] = [hostnames |-> Vec<String>]                      (Hosts)
\*   cfg.hosts[k]    = [hostname |-> String, alias |-> Option<Vec<Alias>>] (Host)
\*   cfg.cmd[k]      = [command |-> String]                             (Command)
\* An Alias is [command |-> String, aliasfor |-> String].
\* Host's username, pem and port are carried along by clone() and read by no
\* resolver or engine code; they are left out of the record.

hostnames(cfg, host) ==
    IF host \in DOMAIN cfg.hostlist THEN cfg.hostlist[host].hostnames ELSE << >>

configured_hostlists(cfg) == as_set(BTreeKeys(cfg.hostlist))

configured_cmds(cfg) == as_set(BTreeKeys(cfg.cmd))

requested(commands) == as_set(commands)

\* mutant: a plain token that is no hostlist key makes the expansion empty
expanded_strict(cfg, hosts) ==
    IF \E i \in 1..Len(hosts) : unwanted_host(hosts[i]) = None /\ hosts[i] \notin DOMAIN cfg.hostlist
    THEN << >>
    ELSE as_set(FlatMap(LAMBDA host : hostnames(cfg, host), hosts))

expanded(cfg, hosts) == as_set(FlatMap(LAMBDA host : hostnames(cfg, host), hosts))

unwanted(hosts) == as_set(FlatMap(unwanted_host, hosts))

host_tuple(cfg, hostname) ==
    IF hostname \in DOMAIN cfg.hosts THEN Some(<< hostname, cfg.hosts[hostname] >>) ELSE None

cmd_tuple(cfg, cmd_name) ==
    IF cmd_name \in DOMAIN cfg.cmd THEN Some(<< cmd_name, cfg.cmd[cmd_name] >>) ELSE None

\* mutant: gate by the keys of the hosts table instead of the hostlist table
actual_hosts_gated_by_hosts(cfg, hosts) ==
    LET exp        == expanded(cfg, hosts)
        unw        == unwanted(hosts)
        retained   == SelectSeq(exp, LAMBDA x : ~Contains(unw, x))
        configured == as_set(BTreeKeys(cfg.hosts))
    IN  CollectMap(<< >>, FlatMap(LAMBDA hostname : host_tuple(cfg, hostname),
                                  Intersection(retained, configured)))

actual_hosts(cfg, hosts) ==
    LET exp        == expanded(cfg, hosts)
        unw        == unwanted(hosts)
        retained   == SelectSeq(exp, LAMBDA x : ~Contains(unw, x))
        configured == configured_hostlists(cfg)
    IN  CollectMap(<< >>, FlatMap(LAMBDA hostname : host_tuple(cfg, hostname),
                                  Intersection(retained, configured)))

\* mutant: intersect the other way round, which yields the command table's key order
actual_cmds_table_order(cfg, commands) ==
    LET req        == requested(commands)
        configured == configured_cmds(cfg)
    IN  CollectMap(<< >>, FlatMap(LAMBDA cmd_name : cmd_tuple(cfg, cmd_name),
                                  Intersection(configured, req)))

actual_cmds(cfg, commands) ==
    LET req        == requested(commands)
        configured == configured_cmds(cfg)
    IN  CollectMap(<< >>, FlatMap(LAMBDA cmd_name : cmd_tuple(cfg, cmd_name),
                                  Intersection(req, configured)))

\* mutant: leave the loop at the first alias for cmd_name, configured or not
RECURSIVE alias_scan_break_first(_, _, _, _)
alias_scan_break_first(cfg, cmd, cmd_name, alias_vec) ==
    IF alias_vec = << >> THEN cmd
    ELSE LET alias == Head(alias_vec)
         IN  IF alias.aliasfor = cmd_name
             THEN (IF alias.command \in DOMAIN cfg.cmd THEN cfg.cmd[alias.command].command ELSE cmd)
             ELSE alias_scan_break_first(cfg, cmd, cmd_name, Tail(alias_vec))

\* mutant: emit the alias's command key itself instead of looking it up
RECURSIVE alias_scan_raw_target(_, _, _, _)
alias_scan_raw_target(cfg, cmd, cmd_name, alias_vec) ==
    IF alias_vec = << >> THEN cmd
    ELSE LET alias == Head(alias_vec)
         IN  IF alias.aliasfor = cmd_name
             THEN alias.command
             ELSE alias_scan_raw_target(cfg, cmd, cmd_name, Tail(alias_vec))

\* the for loop of cmd_map_tuple over alias_vec: cmd is replaced, and the loop left,
\* at the first alias for cmd_name whose command key is in the command table
RECURSIVE alias_scan(_, _, _, _)
alias_scan(cfg, cmd, cmd_name, alias_vec) ==
    IF alias_vec = << >> THEN cmd
    ELSE LET alias == Head(alias_vec)
         IN  IF alias.aliasfor = cmd_name /\ alias.command \in DOMAIN cfg.cmd
             THEN cfg.cmd[alias.command].command
             ELSE alias_scan(cfg, cmd, cmd_name, Tail(alias_vec))

\* mutant: no break, so the last configured alias for cmd_name wins
RECURSIVE alias_scan_no_break(_, _, _, _)
alias_scan_no_break(cfg, cmd, cmd_name, alias_vec) ==
    IF alias_vec = << >> THEN cmd
    ELSE LET alias == Head(alias_vec)
         IN  alias_scan_no_break(cfg,
                                 IF alias.aliasfor = cmd_name /\ alias.command \in DOMAIN cfg.cmd
                                 THEN cfg.cmd[alias.command].command ELSE cmd,
                                 cmd_name, Tail(alias_vec))

cmd_map_tuple_no_break(cfg, command, cmd_name, host) ==
    << cmd_name,
       IF host.alias # None
       THEN alias_scan_no_break(cfg, command.command, cmd_name, host.alias[1])
       ELSE command.command >>

cmd_map_tuple(cfg, command, cmd_name, host) ==
    << cmd_name,
       IF host.alias # None
       THEN alias_scan(cfg, command.command, cmd_name, host.alias[1])
       ELSE command.command >>

actual_cmd_map(cfg, target_host, expected_cmds) ==
    CollectMap(<< >>, [ i \in 1..Len(expected_cmds) |->
        cmd_map_tuple(cfg, expected_cmds[i][2], expected_cmds[i][1], target_host) ])

\* mutant: a key is inserted only when its command map is not empty
host_map_step_skip_empty(cfg, hosts_map, hostname, host, a_cmds, a_sync_cmds) ==
    LET entered   == IF ContainsKey(hosts_map, hostname) THEN hosts_map
                     ELSE Append(hosts_map, << hostname, << host, << >> >> >>)
        i         == IndexOf(Keys(entered), hostname)
        cmd_tuple_ == entered[i][2]
        cmds      == actual_cmd_map(cfg, host, a_cmds)
        sync_cmds == actual_cmd_map(cfg, host, a_sync_cmds)
        with_cmd  == IF cmds = << >> THEN cmd_tuple_[2]
                     ELSE IndexMapInsert(cmd_tuple_[2], "Cmd", cmds)
        with_sync == IF sync_cmds = << >> THEN with_cmd
                     ELSE IndexMapInsert(with_cmd, "SyncCmd", sync_cmds)
    IN  [ entered EXCEPT ![i] = << hostname, << cmd_tuple_[1], with_sync >> >> ]

\* one iteration of either for loop of to_host_map: entry().or_insert(), then the
\* two inserts into the entry's CmdType map
host_map_step(cfg, hosts_map, hostname, host, a_cmds, a_sync_cmds) ==
    LET entered   == IF ContainsKey(hosts_map, hostname) THEN hosts_map
                     ELSE Append(hosts_map, << hostname, << host, << >> >> >>)
        i         == IndexOf(Keys(entered), hostname)
        cmd_tuple_ == entered[i][2]
        cmds      == actual_cmd_map(cfg, host, a_cmds)
        sync_cmds == actual_cmd_map(cfg, host, a_sync_cmds)
        with_cmd  == IndexMapInsert(cmd_tuple_[2], "Cmd", cmds)
        with_sync == IndexMapInsert(with_cmd, "SyncCmd", sync_cmds)
    IN  [ entered EXCEPT ![i] = << hostname, << cmd_tuple_[1], with_sync >> >> ]

RECURSIVE host_map_loop(_, _, _, _, _)
host_map_loop(cfg, hosts_map, host_pairs, a_cmds, a_sync_cmds) ==
    IF host_pairs = << >> THEN hosts_map
    ELSE host_map_loop(cfg,
                       host_map_step(cfg, hosts_map, Head(host_pairs)[1], Head(host_pairs)[2],
                                     a_cmds, a_sync_cmds),
                       Tail(host_pairs), a_cmds, a_sync_cmds)

\* mutant: the exclusions of the primary selector are applied to the sync selector too
to_host_map_locals_shared_exclusions(cfg, host_cmds) ==
    LET negs == SelectSeq(host_cmds.hosts, LAMBDA t : t # << >> /\ t[1] = "!")
    IN  [ actual_hosts      |-> actual_hosts(cfg, host_cmds.hosts),
          actual_cmds       |-> actual_cmds(cfg, host_cmds.cmds),
          actual_sync_hosts |-> actual_hosts(cfg, as_set(host_cmds.sync_hosts \o negs)),
          actual_sync_cmds  |-> actual_cmds(cfg, host_cmds.sync_cmds) ]

\* the four locals computed at the head of to_host_map
to_host_map_locals(cfg, host_cmds) ==
    [ actual_hosts      |-> actual_hosts(cfg, host_cmds.hosts),
      actual_cmds       |-> actual_cmds(cfg, host_cmds.cmds),
      actual_sync_hosts |-> actual_hosts(cfg, host_cmds.sync_hosts),
      actual_sync_cmds  |-> actual_cmds(cfg, host_cmds.sync_cmds) ]

\* mutant: the loop over the sync hosts runs first
to_host_map_sync_first(cfg, host_cmds) ==
    LET l    == to_host_map_locals(cfg, host_cmds)
        sync == host_map_loop(cfg, << >>, l.actual_sync_hosts, l.actual_cmds, l.actual_sync_cmds)
    IN  host_map_loop(cfg, sync, l.actual_hosts, l.actual_cmds, l.actual_sync_cmds)

to_host_map(cfg, host_cmds) ==
    LET l       == to_host_map_locals(cfg, host_cmds)
        primary == host_map_loop(cfg, << >>, l.actual_hosts, l.actual_cmds, l.actual_sync_cmds)
    IN  host_map_loop(cfg, primary, l.actual_sync_hosts, l.actual_cmds, l.actual_sync_cmds)

\* HostsCmds::from(&ArgMatches): each selector is as_set of the values of its option,
\* and of the empty Vec when the option is absent
HostsCmdsFrom(matches) ==
    [ hosts      |-> as_set(matches.hosts),
      sync_hosts |-> as_set(matches.sync_hosts),
      cmds       |-> as_set(matches.commands),
      sync_cmds  |-> as_set(matches.sync_commands) ]

\* ------------------------------------------------- ssh.rs: the execution engine
\* Multiplex's requested, expanded, unwanted, actual_hosts, actual_cmds, host_tuple
\* and cmd_tuple (ssh.rs 67-123) and the free functions actual_cmd_map and cmd_tuple
\* (ssh.rs 228-257) repeat the code of Mussh above line for line, on the selector
\* the HostType or CmdType names; they are modelled by the same operators.

\* Multiplex::from(&matches)
MultiplexFrom(m) ==
    [ hosts         |-> as_set(m.hosts),
      sync_hosts    |-> as_set(m.sync_hosts),
      commands      |-> as_set(m.commands),
      sync_commands |-> as_set(m.sync_commands) ]

mx_actual_hosts(cfg, run, host_type) ==
    actual_hosts(cfg, IF host_type = "Host" THEN run.hosts ELSE run.sync_hosts)

mx_actual_cmds(cfg, run, cmd_type) ==
    actual_cmds(cfg, IF cmd_type = "Cmd" THEN run.commands ELSE run.sync_commands)

\* one iteration of either for loop that fills hosts_map in multiplex
mx_map_step(hosts_map, hostname, cmds, sync_cmds) ==
    LET entered   == IF ContainsKey(hosts_map, hostname) THEN hosts_map
                     ELSE Append(hosts_map, << hostname, << >> >>)
        i         == IndexOf(Keys(entered), hostname)
        with_cmd  == IndexMapInsert(entered[i][2], "Cmd", cmds)
        with_sync == IndexMapInsert(with_cmd, "SyncCmd", sync_cmds)
    IN  [ entered EXCEPT ![i] = << hostname, with_sync >> ]

RECURSIVE mx_map_loop(_, _, _, _)
mx_map_loop(hosts_map, names, cmds, sync_cmds) ==
    IF names = << >> THEN hosts_map
    ELSE mx_map_loop(mx_map_step(hosts_map, Head(names), cmds, sync_cmds),
                     Tail(names), cmds, sync_cmds)

\* multiplex up to the spawn loop: the four resolutions, hosts_map and count
multiplex_setup(cfg, run) ==
    LET hosts      == mx_actual_hosts(cfg, run, "Host")
        cmds       == mx_actual_cmds(cfg, run, "Cmd")
        sync_hosts == mx_actual_hosts(cfg, run, "SyncHost")
        sync_cmds  == mx_actual_cmds(cfg, run, "SyncCmd")
        primary    == mx_map_loop(<< >>, Keys(hosts), cmds, sync_cmds)
        hosts_map  == mx_map_loop(primary, Keys(sync_hosts), cmds, sync_cmds)
    IN  [ hosts |-> hosts, cmds |-> cmds, sync_hosts |-> sync_hosts, sync_cmds |-> sync_cmds,
          hosts_map |-> hosts_map, count |-> Len(hosts_map) ]

\* mutant: the sync_host flag stays false, so every worker takes the waiting path
worker_closure_never_sync(cfg, hostname, host, cmd_map, is_sync_host) ==
    LET pre  == IndexMapGet(cmd_map, "Cmd")
        sync == IndexMapGet(cmd_map, "SyncCmd")
    IN  [ hn_cl     |-> hostname,
          h_cl      |-> host,
          sync_host |-> FALSE,
          pre_cmds  |-> IF pre # None THEN actual_cmd_map(cfg, host, pre[1]) ELSE << >>,
          sync_cmds |-> IF sync # None THEN actual_cmd_map(cfg, host, sync[1]) ELSE << >>,
          at        |-> "pre",
          k         |-> 0,
          acc       |-> << >>,
          results   |-> << >>,
          log       |-> << >> ]

\* what the spawn loop moves into the worker closure of one host
worker_closure(cfg, hostname, host, cmd_map, is_sync_host) ==
    LET pre  == IndexMapGet(cmd_map, "Cmd")
        sync == IndexMapGet(cmd_map, "SyncCmd")
    IN  [ hn_cl     |-> hostname,
          h_cl      |-> host,
          sync_host |-> is_sync_host,
          pre_cmds  |-> IF pre # None THEN actual_cmd_map(cfg, host, pre[1]) ELSE << >>,
          sync_cmds |-> IF sync # None THEN actual_cmd_map(cfg, host, sync[1]) ELSE << >>,
          at        |-> "pre",      \* "pre", "wait", "sync", "done", "send", "exited"
          k         |-> 0,          \* commands of the running execute() call finished
          acc       |-> << >>,      \* the IndexMap the running execute() call collects
          results   |-> << >>,
          log       |-> << >> ]     \* what the worker has done so far, in order

\* execute_on_host: the body under src/ is the stub Ok(()); the transport it stands
\* for fails with an error kind, so a command ends either way
execute_on_host == { "Ok", "Err" }

\* IndexMap::extend: insert every pair of the other map
extend(results, other) == CollectMap(results, other)

\* ------------------------------------------------------------- the inputs drawn

HostNames == { << "a" >>, << "b" >> }

GroupName == << "g" >>

HostTokens == HostNames \cup { GroupName, << "!", "a" >> }

CmdNames == { << "x" >>, << "y" >>, << "z" >> }

\* the shell string configured for command key k: a different literal for every key
CmdString(k) == << "$" >> \o k

Aliases == [ command : CmdNames, aliasfor : { << "x" >>, << "y" >> } ]

PlainHost(h) == [ hostname |-> h, alias |-> None ]

\* hostlist tables: a single-host hostlist for any of the hosts, and the group
HostlistTables ==
    { [ k \in K \cup G |-> IF k = GroupName THEN [ hostnames |-> names ]
                                            ELSE [ hostnames |-> << k >> ] ] :
        K \in SUBSET HostNames,
        G \in SUBSET { GroupName },
        names \in SeqsUpTo(HostNames, MaxNames) }

HostTables == { [ k \in K |-> PlainHost(k) ] : K \in SUBSET HostNames }

CmdTables == { [ k \in K |-> [ command |-> CmdString(k) ] ] : K \in SUBSET CmdNames }

\* the configuration of the repository's tests, cut to two hosts: a group of all
\* hosts, one hostlist per host, an alias on the first host
StdHostlist ==
    [ k \in HostNames \cup { GroupName } |->
        IF k = GroupName THEN [ hostnames |-> << << "a" >>, << "b" >> >> ]
                         ELSE [ hostnames |-> << k >> ] ]

StdAlias == [ command |-> << "y" >>, aliasfor |-> << "x" >> ]

HostsWithAlias(alias) ==
    [ k \in HostNames |-> IF k = << "a" >> THEN [ hostname |-> k, alias |-> alias ]
                                           ELSE PlainHost(k) ]

NoMatches ==
    [ hosts |-> << >>, sync_hosts |-> << >>, commands |-> << >>, sync_commands |-> << >> ]

\* `!`-tokens that may also be keys of the hostlist table
NegTokens == { << "!", "a" >>, << "!", "c" >> }

\* the values of an option given several times
DupTokens == { << "a" >>, << "b" >>, << "x" >> }

\* the durations drawn: around the second, the minute, the hour and the day
SecondSamples == { 0, 1, 9, 10, 59 }

NanoSamples == { 0, 999999, 1000000, 42000000, 999999999 }

Durations ==
    { [ secs |-> h * 3600 + m * 60 + sec, nanos |-> n ] :
        h \in 0..MaxHours, m \in SecondSamples, sec \in SecondSamples, n \in NanoSamples }

ZeroDuration == [ secs |-> 0, nanos |-> 0 ]

\* ------------------------------------------------------------------- the state

VARIABLES
    config,      \* the Mussh configuration (immutable after load)
    matches,     \* the values of the four command line options
    pc,          \* where the caller is
    host_cmds,   \* the HostsCmds request built from matches
    locals,      \* the four locals of to_host_map
    plan,        \* the MultiplexMapType returned by to_host_map
    run,         \* the Multiplex request built from matches
    mx,          \* the locals of multiplex: hosts, cmds, sync_hosts, sync_cmds, hosts_map, count
    idx,         \* the entry of hosts_map the spawn loop is at
    added,       \* the spawn loop has called wg.add(1) for that entry
    wg,          \* the counter of the WaitGroup
    chan,        \* the batches sent on the mpsc channel and not yet received
    received,    \* the iterations of the receive loop finished
    workers,     \* the worker threads, in spawn order
    again,       \* the MultiplexMapType a second to_host_map call on the same inputs returns
    duration,    \* a std::time::Duration: whole seconds and sub-second nanoseconds
    text         \* the String convert_duration returns for it

engineVars == << run, mx, idx, added, wg, chan, received, workers >>

vars == << config, matches, pc, host_cmds, locals, plan,
           run, mx, idx, added, wg, chan, received, workers, again, duration, text >>

\* one host selector over every hostlist and hosts table
InputsHostTables ==
    \E hl \in HostlistTables, ht \in HostTables, sel \in SeqsUpTo(HostTokens, MaxSel) :
        /\ config = [ hostlist |-> hl, hosts |-> ht,
                      cmd |-> [ k \in { << "x" >> } |-> [ command |-> CmdString(k) ] ] ]
        /\ matches = [ NoMatches EXCEPT !.hosts = sel, !.commands = << << "x" >> >> ]

\* both host selectors over the standard tables and the order of the group
InputsHostSelectors ==
    \E names \in { << << "a" >>, << "b" >> >>, << << "b" >>, << "a" >> >> },
       sel \in SeqsUpTo(HostTokens, MaxSel), sync \in SeqsUpTo(HostTokens, MaxSel) :
        /\ config = [ hostlist |-> [ StdHostlist EXCEPT ![GroupName] = [ hostnames |-> names ] ],
                      hosts    |-> HostsWithAlias(Some(<< StdAlias >>)),
                      cmd      |-> [ k \in { << "x" >>, << "y" >> } |-> [ command |-> CmdString(k) ] ] ]
        /\ matches = [ NoMatches EXCEPT !.hosts = sel, !.sync_hosts = sync,
                                        !.commands = << << "x" >> >>,
                                        !.sync_commands = << << "y" >> >> ]

\* every alias list of the first host over every command table
InputsAliases ==
    \E ct \in CmdTables, alias \in { None } \cup { Some(v) : v \in SeqsUpTo(Aliases, MaxAlias) } :
        /\ config = [ hostlist |-> StdHostlist, hosts |-> HostsWithAlias(alias), cmd |-> ct ]
        /\ matches = [ NoMatches EXCEPT !.hosts = << GroupName >>,
                                        !.commands = << << "x" >>, << "y" >> >>,
                                        !.sync_commands = << << "z" >>, << "x" >> >> ]

\* both command selectors over every command table
InputsCmdSelectors ==
    \E ct \in CmdTables, cmds \in SeqsUpTo(CmdNames, MaxSel), sync \in SeqsUpTo(CmdNames, MaxSel) :
        /\ config = [ hostlist |-> StdHostlist, hosts |-> HostsWithAlias(Some(<< StdAlias >>)),
                      cmd |-> ct ]
        /\ matches = [ NoMatches EXCEPT !.hosts = << << "b" >>, << "a" >> >>,
                                        !.commands = cmds, !.sync_commands = sync ]

\* a hostlist whose key starts with `!` (a quoted TOML key), and one host selector
InputsNegatedKey ==
    \E neg \in NegTokens, names \in SeqsUpTo(HostNames, MaxNames),
       sel \in SeqsUpTo(HostTokens \cup NegTokens, MaxSel) :
        /\ config = [ hostlist |-> [ k \in DOMAIN StdHostlist \cup { neg } |->
                                       IF k = neg THEN [ hostnames |-> names ]
                                                  ELSE StdHostlist[k] ],
                      hosts    |-> HostsWithAlias(None),
                      cmd      |-> [ k \in { << "x" >> } |-> [ command |-> CmdString(k) ] ] ]
        /\ matches = [ NoMatches EXCEPT !.hosts = sel, !.commands = << << "x" >> >> ]

\* one of the four options given with repeated values, the other three absent
InputsDuplicates ==
    \E which \in DOMAIN NoMatches, toks \in SeqsUpTo(DupTokens, MaxDup) :
        /\ config = [ hostlist |-> StdHostlist, hosts |-> HostsWithAlias(Some(<< StdAlias >>)),
                      cmd |-> [ k \in { << "x" >>, << "y" >> } |-> [ command |-> CmdString(k) ] ] ]
        /\ matches = [ NoMatches EXCEPT ![which] = toks ]

PlanInputs ==
    \/ InputsHostTables
    \/ InputsHostSelectors
    \/ InputsAliases
    \/ InputsCmdSelectors
    \/ InputsNegatedKey
    \/ InputsDuplicates

EmptyMx ==
    [ hosts |-> << >>, cmds |-> << >>, sync_hosts |-> << >>, sync_cmds |-> << >>,
      hosts_map |-> << >>, count |-> 0 ]

\* no multiplex call has started
EngineIdle ==
    /\ run = MultiplexFrom(NoMatches)
    /\ mx = EmptyMx
    /\ idx = 1
    /\ added = FALSE
    /\ wg = 0
    /\ chan = << >>
    /\ received = 0
    /\ workers = << >>

EmptyLocals ==
    [ actual_hosts |-> << >>, actual_cmds |-> << >>,
      actual_sync_hosts |-> << >>, actual_sync_cmds |-> << >> ]

\* convert_duration has not been called
DurationIdle ==
    /\ duration = ZeroDuration
    /\ text = << >>

InitPlan ==
    /\ PlanInputs
    /\ pc = "matches"
    /\ host_cmds = HostsCmdsFrom(NoMatches)
    /\ locals = EmptyLocals
    /\ plan = << >>
    /\ again = << >>
    /\ EngineIdle
    /\ DurationIdle

\* HostsCmds::from(&matches)
FromMatches ==
    /\ pc = "matches"
    /\ host_cmds' = HostsCmdsFrom(matches)
    /\ pc' = "request"
    /\ UNCHANGED << duration, text, again, config, matches, locals, plan, engineVars >>

\* mutant: the call takes the selectors out of the request it is given
ToHostMap_drains_request ==
    /\ pc = "request"
    /\ locals' = to_host_map_locals(config, host_cmds)
    /\ plan' = to_host_map(config, host_cmds)
    /\ host_cmds' = HostsCmdsFrom(NoMatches)
    /\ pc' = "plan"
    /\ UNCHANGED << duration, text, again, config, matches, engineVars >>

\* config.to_host_map(&host_cmds)
ToHostMap ==
    /\ pc = "request"
    /\ locals' = to_host_map_locals(config, host_cmds)
    /\ plan' = to_host_map(config, host_cmds)
    /\ pc' = "plan"
    /\ UNCHANGED << duration, text, again, config, matches, host_cmds, engineVars >>

\* config.to_host_map(&host_cmds), called a second time on the same borrows
ToHostMapAgain ==
    /\ pc = "plan"
    /\ locals' = to_host_map_locals(config, host_cmds)
    /\ again' = to_host_map(config, host_cmds)
    /\ pc' = "again"
    /\ UNCHANGED << duration, text, config, matches, host_cmds, plan, engineVars >>

NextPlan == FromMatches \/ ToHostMap \/ ToHostMapAgain

SpecPlan == InitPlan /\ [][NextPlan]_vars

\* requests over tables that lack some of the keys the selectors name: the group and
\* the single-host hostlists of any of the hosts, any of the commands, one host
\* selector
InputsMissingKeys ==
    \E K \in SUBSET HostNames, ct \in CmdTables, sel \in SeqsUpTo(HostTokens, MaxSel) :
        /\ config = [ hostlist |-> [ k \in K \cup { GroupName } |-> StdHostlist[k] ],
                      hosts    |-> HostsWithAlias(Some(<< StdAlias >>)),
                      cmd      |-> ct ]
        /\ matches = [ hosts |-> sel, sync_hosts |-> << << "b" >> >>,
                       commands |-> << << "x" >>, << "y" >> >>,
                       sync_commands |-> << << "z" >> >> ]

InitMissingKeys ==
    /\ InputsMissingKeys
    /\ pc = "matches"
    /\ host_cmds = HostsCmdsFrom(NoMatches)
    /\ locals = EmptyLocals
    /\ plan = << >>
    /\ again = << >>
    /\ EngineIdle
    /\ DurationIdle

SpecMissingKeys == InitMissingKeys /\ [][NextPlan]_vars

\* ------------------------------------------------------ utils: convert_duration

InitDuration ==
    /\ duration \in Durations
    /\ text = << >>
    /\ config = [ hostlist |-> StdHostlist, hosts |-> HostsWithAlias(None),
                  cmd |-> [ k \in { << "x" >> } |-> [ command |-> CmdString(k) ] ] ]
    /\ matches = NoMatches
    /\ pc = "duration"
    /\ host_cmds = HostsCmdsFrom(NoMatches)
    /\ locals = EmptyLocals
    /\ plan = << >>
    /\ again = << >>
    /\ EngineIdle

\* convert_duration(&duration)
ConvertDuration ==
    /\ pc = "duration"
    /\ text' = convert_duration(duration)
    /\ pc' = "formatted"
    /\ UNCHANGED << duration, again, config, matches, host_cmds, locals, plan, engineVars >>

NextDuration == ConvertDuration

SpecDuration == InitDuration /\ [][NextDuration]_vars

\* ------------------------------------------------------- the engine: its inputs

EngineHosts == { << "a" >>, << "b" >>, << "c" >> }

\* the configuration of the test tests::multiplex of ssh.rs, cut to three hosts: the
\* group of all hosts, one hostlist per host, an alias on the first host
EngineConfig ==
    [ hostlist |-> [ k \in EngineHosts \cup { GroupName } |->
                       IF k = GroupName
                       THEN [ hostnames |-> << << "a" >>, << "b" >>, << "c" >> >> ]
                       ELSE [ hostnames |-> << k >> ] ],
      hosts    |-> [ k \in EngineHosts |->
                       IF k = << "a" >> THEN [ hostname |-> k, alias |-> Some(<< StdAlias >>) ]
                                        ELSE PlainHost(k) ],
      cmd      |-> [ k \in { << "x" >>, << "y" >> } |-> [ command |-> CmdString(k) ] ] ]

EngineHostSelectors ==
    { << >>,
      << GroupName >>,
      << << "a" >>, << "b" >> >>,
      << << "b" >>, << "a" >> >>,
      << GroupName, << "!", "a" >> >> }

EngineSyncSelectors ==
    { << >>,
      << << "a" >> >>,
      << << "b" >> >>,
      << << "c" >> >>,
      << << "b" >>, << "c" >> >>,
      << GroupName >> }

EngineCmdSelectors == { << >>, << << "x" >> >> }

EngineSyncCmdSelectors == { << >>, << << "y" >> >>, << << "x" >> >> }

\* ------------------------------------------------------ the engine: its actions

Init ==
    /\ config = EngineConfig
    /\ \E h \in EngineHostSelectors, s \in EngineSyncSelectors,
          c \in EngineCmdSelectors, y \in EngineSyncCmdSelectors :
          matches = [ hosts |-> h, sync_hosts |-> s, commands |-> c, sync_commands |-> y ]
    /\ pc = "matches"
    /\ host_cmds = HostsCmdsFrom(NoMatches)
    /\ locals = EmptyLocals
    /\ plan = << >>
    /\ again = << >>
    /\ EngineIdle
    /\ DurationIdle

\* Multiplex::from(&matches)
FromMatchesMultiplex ==
    /\ pc = "matches"
    /\ run' = MultiplexFrom(matches)
    /\ pc' = "multiplex"
    /\ UNCHANGED << duration, text, again, config, matches, host_cmds, locals, plan,
                    mx, idx, added, wg, chan, received, workers >>

\* multiplex, lines 127-149: resolve, fill hosts_map, WaitGroup::new(), mpsc::channel(),
\* count; the spawn loop over an empty hosts_map ends at once
MultiplexSetup ==
    /\ pc = "multiplex"
    /\ mx' = multiplex_setup(config, run)
    /\ wg' = 0
    /\ chan' = << >>
    /\ idx' = 1
    /\ pc' = IF mx'.hosts_map = << >> THEN "receiving" ELSE "spawning"
    /\ UNCHANGED << duration, text, again, config, matches, host_cmds, locals, plan, run, added, received, workers >>

AtEntry == pc = "spawning" /\ idx <= Len(mx.hosts_map)

EntryHostname == mx.hosts_map[idx][1]

AfterEntry == IF idx + 1 > Len(mx.hosts_map) THEN "receiving" ELSE "spawning"

\* the spawn loop, line 153: hosts.get(hostname) is None, the entry gets no worker
SpawnSkip ==
    /\ AtEntry
    /\ IndexMapGet(mx.hosts, EntryHostname) = None
    /\ idx' = idx + 1
    /\ pc' = AfterEntry
    /\ UNCHANGED << duration, text, again, config, matches, host_cmds, locals, plan,
                    run, mx, added, wg, chan, received, workers >>

\* mutant: every host with a Host entry is added to the wait group
SpawnAdd_every_host ==
    /\ AtEntry
    /\ IndexMapGet(mx.hosts, EntryHostname) # None
    /\ ~added
    /\ wg' = wg + 1
    /\ added' = TRUE
    /\ UNCHANGED << duration, text, again, config, matches, pc, host_cmds, locals, plan,
                    run, mx, idx, chan, received, workers >>

\* the spawn loop, lines 168-172: a sync host is added to the wait group
SpawnAdd ==
    /\ AtEntry
    /\ IndexMapGet(mx.hosts, EntryHostname) # None
    /\ ContainsKey(mx.sync_hosts, EntryHostname)
    /\ ~added
    /\ wg' = wg + 1
    /\ added' = TRUE
    /\ UNCHANGED << duration, text, again, config, matches, pc, host_cmds, locals, plan,
                    run, mx, idx, chan, received, workers >>

\* the spawn loop, lines 175-199: thread::spawn of the worker of the entry
SpawnThread ==
    /\ AtEntry
    /\ IndexMapGet(mx.hosts, EntryHostname) # None
    /\ ContainsKey(mx.sync_hosts, EntryHostname) => added
    /\ workers' = Append(workers,
                         worker_closure(config, EntryHostname,
                                        IndexMapGet(mx.hosts, EntryHostname)[1],
                                        mx.hosts_map[idx][2],
                                        ContainsKey(mx.sync_hosts, EntryHostname)))
    /\ added' = FALSE
    /\ idx' = idx + 1
    /\ pc' = AfterEntry
    /\ UNCHANGED << duration, text, again, config, matches, host_cmds, locals, plan,
                    run, mx, wg, chan, received >>

\* mutant: the first execute() call is given the SYNC commands, the second the PRE ones
RunningCmds_sync_first(w) == IF w.at = "pre" THEN w.sync_cmds ELSE w.pre_cmds

\* the commands the execute() call a worker is in runs
RunningCmds(w) == IF w.at = "pre" THEN w.pre_cmds ELSE w.sync_cmds

\* mutant: a failed command ends the worker's commands, the batch so far is sent
WorkerExecute_abort_on_err(i) ==
    /\ workers[i].at \in { "pre", "sync" }
    /\ workers[i].k < Len(RunningCmds(workers[i]))
    /\ \E outcome \in execute_on_host :
          LET w        == workers[i]
              cmd_name == RunningCmds(w)[w.k + 1][1]
              acc_     == IndexMapInsert(w.acc, cmd_name, << w.h_cl.hostname, outcome >>)
          IN  workers' = [ workers EXCEPT ![i] =
                  IF outcome = "Err"
                  THEN [ w EXCEPT !.results = extend(w.results, acc_),
                                  !.at  = "send",
                                  !.log = Append(w.log, << w.at, cmd_name >>) ]
                  ELSE [ w EXCEPT !.k   = w.k + 1,
                                  !.acc = acc_,
                                  !.log = Append(w.log, << w.at, cmd_name >>) ] ]
    /\ UNCHANGED << duration, text, again, config, matches, pc, host_cmds, locals, plan,
                    run, mx, idx, added, wg, chan, received >>

\* execute, lines 263-273: the next command of the map runs and its outcome is collected
WorkerExecute(i) ==
    /\ workers[i].at \in { "pre", "sync" }
    /\ workers[i].k < Len(RunningCmds(workers[i]))
    /\ \E outcome \in execute_on_host :
          LET w        == workers[i]
              cmd_name == RunningCmds(w)[w.k + 1][1]
          IN  workers' = [ workers EXCEPT ![i] =
                  [ w EXCEPT !.k   = w.k + 1,
                             !.acc = IndexMapInsert(w.acc, cmd_name, << w.h_cl.hostname, outcome >>),
                             !.log = Append(w.log, << w.at, cmd_name >>) ] ]
    /\ UNCHANGED << duration, text, again, config, matches, pc, host_cmds, locals, plan,
                    run, mx, idx, added, wg, chan, received >>

\* lines 185-186: execute(&h_cl, &pre_cmds) returns into results
WorkerPreDone(i) ==
    /\ workers[i].at = "pre"
    /\ workers[i].k = Len(workers[i].pre_cmds)
    /\ workers' = [ workers EXCEPT ![i] =
          [ workers[i] EXCEPT !.results = workers[i].acc,
                              !.acc = << >>,
                              !.k = 0,
                              !.at = IF workers[i].sync_host THEN "sync" ELSE "wait" ] ]
    /\ UNCHANGED << duration, text, again, config, matches, pc, host_cmds, locals, plan,
                    run, mx, idx, added, wg, chan, received >>

\* mutant: wait() returns at once, whatever the counter
WorkerWait_returns_at_once(i) ==
    /\ workers[i].at = "wait"
    /\ workers' = [ workers EXCEPT ![i] =
          [ workers[i] EXCEPT !.at = "sync", !.log = Append(workers[i].log, << "wait" >>) ] ]
    /\ UNCHANGED << duration, text, again, config, matches, pc, host_cmds, locals, plan,
                    run, mx, idx, added, wg, chan, received >>

\* line 194: wg_cl.wait() returns when the counter is zero
WorkerWait(i) ==
    /\ workers[i].at = "wait"
    /\ wg = 0
    /\ workers' = [ workers EXCEPT ![i] =
          [ workers[i] EXCEPT !.at = "sync", !.log = Append(workers[i].log, << "wait" >>) ] ]
    /\ UNCHANGED << duration, text, again, config, matches, pc, host_cmds, locals, plan,
                    run, mx, idx, added, wg, chan, received >>

\* lines 189 and 196: results.extend(execute(&h_cl, &sync_cmds))
WorkerSyncDone(i) ==
    /\ workers[i].at = "sync"
    /\ workers[i].k = Len(workers[i].sync_cmds)
    /\ workers' = [ workers EXCEPT ![i] =
          [ workers[i] EXCEPT !.results = extend(workers[i].results, workers[i].acc),
                              !.acc = << >>,
                              !.k = 0,
                              !.at = IF workers[i].sync_host THEN "done" ELSE "send" ] ]
    /\ UNCHANGED << duration, text, again, config, matches, pc, host_cmds, locals, plan,
                    run, mx, idx, added, wg, chan, received >>

\* mutant: done leaves the counter as it is
WorkerDone_keeps_counter(i) ==
    /\ workers[i].at = "done"
    /\ wg > 0
    /\ wg' = wg
    /\ workers' = [ workers EXCEPT ![i] =
          [ workers[i] EXCEPT !.at = "send", !.log = Append(workers[i].log, << "done" >>) ] ]
    /\ UNCHANGED << duration, text, again, config, matches, pc, host_cmds, locals, plan,
                    run, mx, idx, added, chan, received >>

\* line 191: wg_cl.done()
WorkerDone(i) ==
    /\ workers[i].at = "done"
    /\ wg > 0
    /\ wg' = wg - 1
    /\ workers' = [ workers EXCEPT ![i] =
          [ workers[i] EXCEPT !.at = "send", !.log = Append(workers[i].log, << "done" >>) ] ]
    /\ UNCHANGED << duration, text, again, config, matches, pc, host_cmds, locals, plan,
                    run, mx, idx, added, chan, received >>

\* line 198: tx_cl.send(results), and the thread ends
WorkerSend(i) ==
    /\ workers[i].at = "send"
    /\ chan' = Append(chan, [ from |-> workers[i].hn_cl, results |-> workers[i].results ])
    /\ workers' = [ workers EXCEPT ![i] =
          [ workers[i] EXCEPT !.at = "exited", !.log = Append(workers[i].log, << "send" >>) ] ]
    /\ UNCHANGED << duration, text, again, config, matches, pc, host_cmds, locals, plan,
                    run, mx, idx, added, wg, received >>

\* lines 204-223: one iteration of the receive loop; rx.recv() blocks while the
\* channel is empty (tx is alive until multiplex returns, so it never disconnects)
Receive ==
    /\ pc = "receiving"
    /\ received < mx.count
    /\ chan # << >>
    /\ chan' = Tail(chan)
    /\ received' = received + 1
    /\ UNCHANGED << duration, text, again, config, matches, pc, host_cmds, locals, plan,
                    run, mx, idx, added, wg, workers >>

\* line 224: Ok(())
Return ==
    /\ pc = "receiving"
    /\ received = mx.count
    /\ pc' = "returned"
    /\ UNCHANGED << duration, text, again, config, matches, host_cmds, locals, plan,
                    run, mx, idx, added, wg, chan, received, workers >>

Worker(i) ==
    \/ WorkerExecute(i)
    \/ WorkerPreDone(i)
    \/ WorkerWait(i)
    \/ WorkerSyncDone(i)
    \/ WorkerDone(i)
    \/ WorkerSend(i)

Next ==
    \/ FromMatchesMultiplex
    \/ MultiplexSetup
    \/ SpawnSkip
    \/ SpawnAdd
    \/ SpawnThread
    \/ \E i \in 1..Len(workers) : Worker(i)
    \/ Receive
    \/ Return

Spec == Init /\ [][Next]_vars

\* requests with two commands in each phase, in either order, over two hosts: no sync
\* host, the second host a sync host, the first host a sync host, a sync host that
\* is no primary host
StepSyncSelectors == { << >>, << << "b" >> >>, << << "a" >> >>, << << "c" >> >> }

StepCmdSelectors == { << << "x" >>, << "y" >> >>, << << "y" >>, << "x" >> >> }

InitSteps ==
    /\ config = EngineConfig
    /\ \E s \in StepSyncSelectors, c \in StepCmdSelectors, y \in StepCmdSelectors :
          matches = [ hosts |-> << << "a" >>, << "b" >> >>, sync_hosts |-> s,
                      commands |-> c, sync_commands |-> y ]
    /\ pc = "matches"
    /\ host_cmds = HostsCmdsFrom(NoMatches)
    /\ locals = EmptyLocals
    /\ plan = << >>
    /\ again = << >>
    /\ EngineIdle
    /\ DurationIdle

SpecSteps == InitSteps /\ [][Next]_vars

\* the spawn loop of the thread that runs multiplex, which is not preempted forever
SpawnLoop == SpawnSkip \/ SpawnAdd \/ SpawnThread

\* the i-th thread spawned, once it is spawned
WorkerThread(i) == i \in 1..Len(workers) /\ Worker(i)

\* at most one thread per configured host is spawned
ThreadIds == 1..Cardinality(EngineHosts)

\* the host selectors of the fair runs, -h then -s: no sync host, a sync host after a
\* non-sync host, a sync host before one, a sync host that is no primary host, every
\* host a sync host, and a sync host between two non-sync hosts
FairRequests ==
    { << << << "a" >>, << "b" >> >>, << >> >>,
      << << << "a" >>, << "b" >> >>, << << "b" >> >> >>,
      << << << "a" >>, << "b" >> >>, << << "a" >> >> >>,
      << << << "a" >>, << "b" >> >>, << << "c" >> >> >>,
      << << << "a" >>, << "b" >> >>, << GroupName >> >>,
      << << GroupName >>, << << "b" >> >> >> }

InitFair ==
    /\ config = EngineConfig
    /\ \E r \in FairRequests :
          matches = [ hosts |-> r[1], sync_hosts |-> r[2],
                      commands |-> << << "x" >> >>, sync_commands |-> << << "y" >> >> ]
    /\ pc = "matches"
    /\ host_cmds = HostsCmdsFrom(NoMatches)
    /\ locals = EmptyLocals
    /\ plan = << >>
    /\ again = << >>
    /\ EngineIdle
    /\ DurationIdle

\* the operating system schedules every thread that can run, and every command ends
FairSpec ==
    /\ InitFair
    /\ [][Next]_vars
    /\ WF_vars(SpawnLoop)
    /\ \A i \in ThreadIds : WF_vars(WorkerThread(i))

\* ------------------------------------------------------ reading a plan and a request

\* every hostname the positive tokens of a selector name through the hostlist table,
\* in the order the tokens and the hostnames lists give them
RECURSIVE Expansion(_, _)
Expansion(cfg, sel) ==
    IF sel = << >> THEN << >>
    ELSE (IF Head(sel) \in DOMAIN cfg.hostlist THEN cfg.hostlist[Head(sel)].hostnames ELSE << >>)
         \o Expansion(cfg, Tail(sel))

\* the names a selector excludes
Excluded(sel) == { Tail(t) : t \in { u \in Range(sel) : u # << >> /\ u[1] = "!" } }

\* s lists exactly the members of S, each once, in the order of their first place in ref
ListsInOrderOf(s, S, ref) ==
    /\ NoDup(s)
    /\ Range(s) = S
    /\ \A i, j \in 1..Len(s) : i < j => IndexOf(ref, s[i]) < IndexOf(ref, s[j])

\* the PRE (kind "Cmd") or SYNC (kind "SyncCmd") maps an entry of the plan holds
MapsOf(entry, kind) == { p[2] : p \in { q \in Range(entry[2][2]) : q[1] = kind } }

AllMapsOf(entry) == MapsOf(entry, "Cmd") \cup MapsOf(entry, "SyncCmd")

\* the aliases of host that rewrite cmd_name to a configured command, by position
ConfiguredAliases(cfg, host, cmd_name) ==
    IF host.alias = None THEN {}
    ELSE { i \in 1..Len(host.alias[1]) :
             /\ host.alias[1][i].aliasfor = cmd_name
             /\ host.alias[1][i].command \in DOMAIN cfg.cmd }

\* the aliases of host for cmd_name, configured or not, by position
MatchingAliases(host, cmd_name) ==
    IF host.alias = None THEN {}
    ELSE { i \in 1..Len(host.alias[1]) : host.alias[1][i].aliasfor = cmd_name }

Least(S) == CHOOSE i \in S : \A j \in S : i <= j

\* the (host, command name, shell string) triples of a plan
PlanTriples ==
    UNION { { << e[2][1], p[1], p[2] >> : p \in UNION { Range(m) : m \in AllMapsOf(e) } } :
            e \in Range(plan) }

\* --------------------------------------------------------------- C4 (corrected)

HostsResolved(result, sel) ==
    LET exp == Expansion(config, sel)
    IN  /\ ListsInOrderOf(Keys(result),
                          { h \in Range(exp) : /\ h \notin Excluded(sel)
                                               /\ h \in DOMAIN config.hostlist
                                               /\ h \in DOMAIN config.hosts },
                          exp)
        /\ \A i \in 1..Len(result) : result[i][2] = config.hosts[result[i][1]]
        /\ \A h \in DOMAIN config.hosts :
              (h \notin DOMAIN config.hostlist
               \/ \A k \in DOMAIN config.hostlist : h \notin Range(config.hostlist[k].hostnames))
              => h \notin Range(Keys(result))

C5_HostSelectorResolution ==
    pc = "plan" =>
        /\ HostsResolved(locals.actual_hosts, host_cmds.hosts)
        /\ HostsResolved(locals.actual_sync_hosts, host_cmds.sync_hosts)

\* a host is returned while another expanded, configured host is dropped for not
\* being a hostlist key, and a third name is dropped by an exclusion
C5_Witness ==
    /\ pc = "plan"
    /\ \E sel \in { host_cmds.hosts } :
          LET exp == Expansion(config, sel)
          IN  /\ Len(locals.actual_hosts) >= 1
              /\ \E h \in Range(exp) : h \in DOMAIN config.hosts /\ h \notin DOMAIN config.hostlist
    /\ \E h \in Range(Expansion(config, host_cmds.hosts)) : h \in Excluded(host_cmds.hosts)

\* ---------------------------------------------------------------------- C6

\* C6: the keys of the plan are the resolved primary hosts in resolution order, then
\* the resolved sync hosts that are not primary hosts, in resolution order.
C6_PlanKeysAndOrder ==
    pc = "plan" =>
        Keys(plan) = Keys(locals.actual_hosts)
                     \o SelectSeq(Keys(locals.actual_sync_hosts),
                                  LAMBDA h : h \notin Range(Keys(locals.actual_hosts)))

\* a plan with a primary host that is also a sync host and a host from the sync
\* selector alone
C6_Witness ==
    /\ pc = "plan"
    /\ \E h \in Range(Keys(locals.actual_sync_hosts)) : h \in Range(Keys(locals.actual_hosts))
    /\ \E h \in Range(Keys(locals.actual_sync_hosts)) :
          h \notin Range(Keys(locals.actual_hosts)) /\ h \in Range(Keys(plan))

\* ---------------------------------------------------------------------- C8

\* C8: the string emitted for N on a host is the table string of the target of the
\* host's alias for N with a configured target (the first such), and N's own table
\* string when the host has no such alias.
C8_AliasSubstitution ==
    pc = "plan" =>
        \A t \in PlanTriples :
            LET c == ConfiguredAliases(config, t[1], t[2])
            IN  t[3] = IF c # {} THEN config.cmd[t[1].alias[1][Least(c)].command].command
                                 ELSE config.cmd[t[2]].command

\* N is rewritten to a target that itself has an alias on the host, and the string
\* is the target's own, while another planned command keeps its own string although
\* the host has an alias list
C8_Witness ==
    /\ pc = "plan"
    /\ \E t \in PlanTriples :
          LET c == ConfiguredAliases(config, t[1], t[2])
          IN  /\ c # {}
              /\ LET target == t[1].alias[1][Least(c)].command
                 IN  /\ target # t[2]
                     /\ ConfiguredAliases(config, t[1], target) # {}
                     /\ t[3] = CmdString(target)
    /\ \E t \in PlanTriples :
          /\ t[1].alias # None
          /\ ConfiguredAliases(config, t[1], t[2]) = {}
          /\ t[3] = CmdString(t[2])

\* ---------------------------------------------------------------------- C9

\* C9: on every planned host the PRE keys are the requested commands and the SYNC
\* keys the requested sync_commands, each name once, configured names only, in the
\* order of the request.
C9_CommandOrder ==
    pc = "plan" =>
        \A e \in Range(plan) :
            /\ MapsOf(e, "Cmd") # {} /\ MapsOf(e, "SyncCmd") # {}
            /\ \A m \in MapsOf(e, "Cmd") :
                  ListsInOrderOf(Keys(m), Range(matches.commands) \cap DOMAIN config.cmd,
                                 matches.commands)
            /\ \A m \in MapsOf(e, "SyncCmd") :
                  ListsInOrderOf(Keys(m), Range(matches.sync_commands) \cap DOMAIN config.cmd,
                                 matches.sync_commands)

\* two configured commands requested against the order of the command table's keys,
\* and a command requested twice
C9_Witness ==
    /\ pc = "plan"
    /\ plan # << >>
    /\ \E e \in Range(plan) : \E m \in MapsOf(e, "Cmd") :
          Len(m) = 2 /\ StrLess(m[2][1], m[1][1])
    /\ \E i, j \in 1..Len(matches.sync_commands) :
          i # j /\ matches.sync_commands[i] = matches.sync_commands[j]
                /\ matches.sync_commands[i] \in DOMAIN config.cmd

\* ---------------------------------------------------------------------- C10

\* C10: every key of a PRE or SYNC map is a key of the command table, every shell
\* string is the string of some entry of the table, and a requested name that is
\* not configured is in no map.
C10_CommandsFromTable ==
    pc = "plan" =>
        /\ \A t \in PlanTriples :
              /\ t[2] \in DOMAIN config.cmd
              /\ \E k \in DOMAIN config.cmd : t[3] = config.cmd[k].command
        /\ \A n \in (Range(matches.commands) \cup Range(matches.sync_commands)) \ DOMAIN config.cmd :
              \A t \in PlanTriples : t[2] # n

\* a plan with a command, made from a request that names an unconfigured command, on
\* a host with an alias to an unconfigured command
C10_Witness ==
    /\ pc = "plan"
    /\ PlanTriples # {}
    /\ Range(matches.commands) \ DOMAIN config.cmd # {}
    /\ \E t \in PlanTriples :
          /\ MatchingAliases(t[1], t[2]) # {}
          /\ \E i \in MatchingAliases(t[1], t[2]) : t[1].alias[1][i].command \notin DOMAIN config.cmd

\* ------------------------------------------------------ reading the engine's state

Started == pc \in { "spawning", "receiving", "returned" }

SpawnLoopOver == pc \in { "receiving", "returned" }

WorkersOf(h) == { i \in 1..Len(workers) : workers[i].hn_cl = h }

\* the planned hosts that are both primary and sync hosts: the sync hosts that the
\* spawn loop gives a worker
SyncWorkerHosts ==
    { h \in Range(Keys(mx.hosts_map)) : ContainsKey(mx.sync_hosts, h) /\ ContainsKey(mx.hosts, h) }

\* the worker has called done on the wait group
CalledDone(w) == << "done" >> \in Range(w.log)

\* the worker has executed at least one of its SYNC commands
StartedSync(w) == \E e \in Range(w.log) : e[1] = "sync"

\* everything a worker on the sync-host path does, in order
SyncPathLog(w) ==
    [ i \in 1..Len(w.pre_cmds) |-> << "pre", w.pre_cmds[i][1] >> ]
    \o [ i \in 1..Len(w.sync_cmds) |-> << "sync", w.sync_cmds[i][1] >> ]
    \o << << "done" >>, << "send" >> >>

IsPrefix(s, t) == Len(s) <= Len(t) /\ \A i \in 1..Len(s) : s[i] = t[i]

\* ------------------------------------------------------------- C1 (code bug)

\* C1: no worker of a non-sync host has executed a SYNC command unless every worker
\* of a sync host has finished its SYNC commands and called done.
C1_SyncBarrier ==
    Started =>
        \A i \in 1..Len(workers) :
            (~workers[i].sync_host /\ StartedSync(workers[i])) =>
                \A h \in SyncWorkerHosts :
                    \E j \in WorkersOf(h) : CalledDone(workers[j])

\* ------------------------------------------------------------- C2 (code bug)

\* C2: the number of batches the receive loop waits for is the number of workers
\* spawned, so that multiplex receives one batch per worker and returns.
C2_OneBatchPerWorker ==
    SpawnLoopOver => mx.count = Len(workers)

\* ------------------------------------------------------------- C3 (code bug)

\* C3: once the spawn loop is over every planned host has exactly one worker, a host
\* resolved from the sync selector alone included.
C3_OneWorkerPerPlannedHost ==
    SpawnLoopOver =>
        \A h \in Range(Keys(mx.hosts_map)) : Cardinality(WorkersOf(h)) = 1

\* ---------------------------------------------------------------------- C7

\* C7: a host resolved by both host selectors has one plan entry (in the plan of
\* to_host_map and in hosts_map) and one worker, and that worker takes the sync-host
\* path: PRE, then SYNC, never waiting on the wait group, then done once, then send.
C7_BothSelectorsHost ==
    Started =>
        \A h \in SyncWorkerHosts :
            /\ Cardinality({ i \in 1..Len(mx.hosts_map) : mx.hosts_map[i][1] = h }) = 1
            /\ LET p == to_host_map(config, HostsCmdsFrom(matches))
               IN  Cardinality({ i \in 1..Len(p) : p[i][1] = h }) = 1
            /\ Cardinality(WorkersOf(h)) <= 1
            /\ SpawnLoopOver => Cardinality(WorkersOf(h)) = 1
            /\ \A i \in WorkersOf(h) :
                  /\ workers[i].sync_host
                  /\ workers[i].at # "wait"
                  /\ IsPrefix(workers[i].log, SyncPathLog(workers[i]))
                  /\ workers[i].at = "exited" => workers[i].log = SyncPathLog(workers[i])
                  /\ workers[i].at \in { "send", "exited" } <=> CalledDone(workers[i])

\* the worker of a host of both selectors has run a PRE and a SYNC command, called
\* done and sent its batch, beside the worker of a host that is no sync host
C7_Witness ==
    /\ pc = "returned"
    /\ wg = 0
    /\ \E h \in SyncWorkerHosts : \E i \in WorkersOf(h) :
          /\ workers[i].at = "exited"
          /\ Len(workers[i].pre_cmds) >= 1 /\ Len(workers[i].sync_cmds) >= 1
    /\ \E i \in 1..Len(workers) : ~workers[i].sync_host

\* ---------------------------------------------------------------------- C11

\* C11: every entry of the plan has exactly the two keys Cmd and SyncCmd in its
\* command map, whichever selector the host came from; a phase no configured command
\* is requested for has its map present and empty.
C11_BothPhaseKeys ==
    pc = "plan" =>
        \A i \in 1..Len(plan) :
            LET cmd_map == plan[i][2][2]
            IN  /\ Len(cmd_map) = 2
                /\ Range(Keys(cmd_map)) = { "Cmd", "SyncCmd" }
                /\ locals.actual_cmds = << >> => MapsOf(plan[i], "Cmd") = { << >> }
                /\ locals.actual_sync_cmds = << >> => MapsOf(plan[i], "SyncCmd") = { << >> }

\* a plan for a request without commands, with a host of the sync selector alone
C11_Witness ==
    /\ pc = "plan"
    /\ host_cmds.cmds = << >>
    /\ host_cmds.sync_cmds = << >>
    /\ \E i \in 1..Len(plan) :
          /\ plan[i][1] \notin Range(Keys(locals.actual_hosts))
          /\ Len(plan[i][2][2]) = 2

\* ---------------------------------------------------------------------- C12

\* the worker is past both execute() calls and its results map is the batch it sends
BatchComplete(w) == w.at \in { "done", "send", "exited" }

\* C12: the batch of a worker holds one result for every command the worker executed:
\* as many entries as the host has PRE commands plus SYNC commands.
C12_BatchHoldsEveryResult ==
    \A i \in 1..Len(workers) :
        BatchComplete(workers[i]) =>
            Len(workers[i].results) = Len(workers[i].pre_cmds) + Len(workers[i].sync_cmds)

\* ---------------------------------------------------------------------- C13

\* the steps of a worker from its spawn to its end, whatever the outcomes are
FullLog(w) ==
    LET pre  == [ j \in 1..Len(w.pre_cmds) |-> << "pre", w.pre_cmds[j][1] >> ]
        sync == [ j \in 1..Len(w.sync_cmds) |-> << "sync", w.sync_cmds[j][1] >> ]
    IN  pre \o (IF w.sync_host THEN sync \o << << "done" >> >>
                               ELSE << << "wait" >> >> \o sync) \o << << "send" >> >>

\* the worker waits for the counter of the wait group to reach zero
AtBarrier(i) == workers[i].at = "wait" /\ wg > 0

\* C13: a failed command never stops the run: the worker goes on through every later
\* PRE and SYNC command, the wait-group step and the send, and every worker that is
\* not waiting at the barrier can take its next step whatever has failed.
C13_FailuresDoNotStop ==
    \A i \in 1..Len(workers) :
        /\ IsPrefix(workers[i].log, FullLog(workers[i]))
        /\ workers[i].at = "exited" <=> workers[i].log = FullLog(workers[i])
        /\ (workers[i].at # "exited" /\ ~AtBarrier(i)) => ENABLED Worker(i)

\* a worker whose PRE command failed has run its SYNC command, passed the barrier
\* and sent its batch, next to a second worker that has run to its end
C13_Witness ==
    \E i, j \in 1..Len(workers) :
        /\ i # j
        /\ workers[i].at = "exited"
        /\ workers[j].at = "exited"
        /\ Len(workers[i].pre_cmds) = 1
        /\ Len(workers[i].sync_cmds) = 1
        /\ \E p \in Range(workers[i].results) :
              p[1] = workers[i].pre_cmds[1][1] /\ p[2][2] = "Err"
        /\ Len(workers[i].results) = 2

\* ---------------------------------------------------------------------- C14

\* the plain tokens drawn for a selector
PlainTokens == HostNames \cup { GroupName, << "c" >> } \cup CmdNames

\* the table a selector is looked up in
TableOf(cfg, which) ==
    IF which \in { "hosts", "sync_hosts" } THEN cfg.hostlist ELSE cfg.cmd

\* the plain tokens that are no key of the table of the selector
UnknownTokens(cfg, which) == { t \in PlainTokens : t \notin DOMAIN TableOf(cfg, which) }

InsertAt(s, k, t) == SubSeq(s, 1, k) \o << t >> \o SubSeq(s, k + 1, Len(s))

\* C14: resolution is total and ignores unknown selectors: to_host_map returns a plan
\* for every configuration and request, and a plain token that is no key of the table
\* of its selector, added at any place of any of the four selectors, leaves the plan
\* unchanged.
C14_UnknownSelectorsIgnored ==
    /\ pc = "plan" =>
          /\ NoDup(Keys(plan))
          /\ \A i \in 1..Len(plan) : plan[i][2][1] = config.hosts[plan[i][1]]
    /\ pc = "plan" =>
          \A which \in DOMAIN matches :
              \A t \in UnknownTokens(config, which), k \in 0..Len(matches[which]) :
                  to_host_map(config,
                              HostsCmdsFrom([ matches EXCEPT ![which] = InsertAt(@, k, t) ]))
                      = plan

\* a plan with a host and a command, for a request whose host selector names a token
\* that is no hostlist key
C14_Witness ==
    /\ pc = "plan"
    /\ \E t \in Range(matches.hosts) : t \in UnknownTokens(config, "hosts")
    /\ \E i \in 1..Len(plan) : MapsOf(plan[i], "Cmd") # { << >> }

\* ---------------------------------------------------------------------- C15

IsNegative(t) == unwanted_host(t) # None

\* the positive tokens of a selector, in their order
Positives(sel) == SelectSeq(sel, LAMBDA t : ~IsNegative(t))

\* the selectors that hold the same tokens with the `!`-tokens at other places and
\* the positive tokens in the same relative order
Reorderings(sel) ==
    { r \in SeqsUpTo(Range(sel), Len(sel)) :
        /\ Len(r) = Len(sel)
        /\ Range(r) = Range(sel)
        /\ Positives(r) = Positives(sel) }

\* C15: negative selectors commute with reordering: moving the `!`-tokens of a host
\* selector to other places, the positive tokens keeping their order, yields the same
\* resolved host sequence.
C15_NegativesCommute ==
    pc = "plan" =>
        \A r \in Reorderings(host_cmds.hosts) :
            actual_hosts(config, r) = locals.actual_hosts

\* ---------------------------------------------------------------------- C16

\* a call of to_host_map leaves the configuration and the request as they were
InputsKept ==
    /\ config' = config
    /\ matches' = matches
    /\ pc \in { "request", "plan" } => host_cmds' = host_cmds

SelectorOf(which) ==
    CASE which = "hosts"         -> host_cmds.hosts
      [] which = "sync_hosts"    -> host_cmds.sync_hosts
      [] which = "commands"      -> host_cmds.cmds
      [] which = "sync_commands" -> host_cmds.sync_cmds

\* C17: each of the four selector sets holds every distinct token of its token list
\* exactly once, in the order of first occurrence; as_set applied to its own result
\* changes nothing; an option that is absent yields the empty set.
C17_SelectorSets ==
    pc # "matches" =>
        \A which \in DOMAIN matches :
            /\ ListsInOrderOf(SelectorOf(which), Range(matches[which]), matches[which])
            /\ as_set(SelectorOf(which)) = SelectorOf(which)
            /\ matches[which] = << >> => SelectorOf(which) = << >>

\* a request built from a token list that repeats its first token after another
\* token, the other three options absent
C17_Witness ==
    /\ pc = "request"
    /\ \E which \in DOMAIN matches :
          /\ Len(matches[which]) = 3
          /\ matches[which][1] = matches[which][3]
          /\ matches[which][1] # matches[which][2]
          /\ Len(SelectorOf(which)) = 2
          /\ \A other \in DOMAIN matches \ { which } : SelectorOf(other) = << >>

\* ---------------------------------------------------------------------- C18

\* reading a printed number back
DigitValue(c) ==
    CASE c = "0" -> 0 [] c = "1" -> 1 [] c = "2" -> 2 [] c = "3" -> 3 [] c = "4" -> 4
      [] c = "5" -> 5 [] c = "6" -> 6 [] c = "7" -> 7 [] c = "8" -> 8 [] c = "9" -> 9

IsDigits(s) ==
    /\ Len(s) >= 1
    /\ \A i \in 1..Len(s) : s[i] \in { "0", "1", "2", "3", "4", "5", "6", "7", "8", "9" }

RECURSIVE Number(_)
Number(s) ==
    IF s = << >> THEN 0
    ELSE Number(SubSeq(s, 1, Len(s) - 1)) * 10 + DigitValue(s[Len(s)])

\* t reads hours:minutes:seconds.millis with the given values, minutes and seconds
\* of two digits, millis of three, hours 00 below one hour and unpadded from one hour
ReadsAsClock(t, S, M) ==
    \E p1, p2, p3 \in 1..Len(t) :
        /\ p1 < p2 /\ p2 < p3 /\ p3 < Len(t)
        /\ t[p1] = ":" /\ t[p2] = ":" /\ t[p3] = "."
        /\ LET hours   == SubSeq(t, 1, p1 - 1)
               minutes == SubSeq(t, p1 + 1, p2 - 1)
               seconds == SubSeq(t, p2 + 1, p3 - 1)
               millis  == SubSeq(t, p3 + 1, Len(t))
           IN  /\ IsDigits(hours) /\ IsDigits(minutes) /\ IsDigits(seconds) /\ IsDigits(millis)
               /\ Number(hours) = S \div 3600
               /\ IF S < 3600 THEN hours = << "0", "0" >> ELSE hours[1] # "0"
               /\ Len(minutes) = 2 /\ Number(minutes) = (S \div 60) % 60
               /\ Len(seconds) = 2 /\ Number(seconds) = S % 60
               /\ Len(millis) = 3 /\ Number(millis) = M

\* t reads <S>s
ReadsAsSeconds(t, S) ==
    /\ Len(t) >= 2
    /\ t[Len(t)] = "s"
    /\ IsDigits(SubSeq(t, 1, Len(t) - 1))
    /\ t[1] # "0"
    /\ Number(SubSeq(t, 1, Len(t) - 1)) = S

\* C18: for a duration of S whole seconds and M sub-second milliseconds,
\* convert_duration yields hours:minutes:seconds.millis with hours = S / 3600,
\* minutes = (S / 60) % 60, seconds = S % 60 and millis = M when S < 86400, and
\* <S>s without the milliseconds when S >= 86400.
C18_DurationFormat ==
    pc = "formatted" =>
        LET S == duration.secs
            M == duration.nanos \div 1000000
        IN  IF S < 86400 THEN ReadsAsClock(text, S, M) ELSE ReadsAsSeconds(text, S)

\* a duration of more than one hour and less than a day, with a sub-second part that
\* is no whole number of milliseconds, has been formatted
C18_Witness ==
    /\ pc = "formatted"
    /\ duration.secs > 3600
    /\ duration.secs < 86400
    /\ duration.secs % 60 # 0
    /\ duration.nanos % 1000000 # 0
    /\ duration.nanos > 1000000
    /\ Len(text) >= 10

\* ---------------------------------------------------------------------- C19

\* the planned hosts that are sync hosts
SyncPlanned == { h \in Range(Keys(mx.hosts_map)) : ContainsKey(mx.sync_hosts, h) }

\* C19: from the spawn of the first worker thread until a sync worker calls done, the
\* counter of the wait group equals the number of planned hosts that are sync hosts.
C19_WaitGroupInitialized ==
    (workers # << >> /\ \A i \in 1..Len(workers) : ~CalledDone(workers[i]))
        => wg = Cardinality(SyncPlanned)

\* ---------------------------------------------------------------------- C20

\* the batches worker i has sent
Sends(w) == Cardinality({ j \in 1..Len(w.log) : w.log[j] = << "send" >> })

Spawned(i) == i \in 1..Len(workers)

Exited(i) == Spawned(i) /\ workers[i].at = "exited"

\* worker i is past wait()
Released(i) == Spawned(i) /\ << "wait" >> \in Range(workers[i].log)

\* C20: no worker blocks forever on the wait group: under fair scheduling every
\* spawned worker eventually sends its batch, and sends exactly one; with no resolved
\* sync host every worker takes the non-sync path and finds the counter at zero; with
\* sync hosts every non-sync worker is released from wait() before it ends.
C20_NoWorkerBlocksForever ==
    /\ [](\A i \in 1..Len(workers) :
            /\ Sends(workers[i]) <= 1
            /\ Exited(i) => Sends(workers[i]) = 1
            /\ (Exited(i) /\ ~workers[i].sync_host) => Released(i)
            /\ mx.sync_hosts = << >> => ~workers[i].sync_host /\ wg = 0)
    /\ \A i \in ThreadIds : Spawned(i) ~> Exited(i)

\* a non-sync worker that has waited has sent its batch in a run whose sync worker
\* has called done
C20_Witness ==
    \E i, j \in 1..Len(workers) :
        /\ ~workers[i].sync_host
        /\ workers[i].at = "exited"
        /\ << "wait" >> \in Range(workers[i].log)
        /\ workers[j].sync_host
        /\ CalledDone(workers[j])

\* ---------------------------------------------------------------------- C21

\* the command names of the events of one kind in the log of a worker, in order
NamesOf(w, kind) ==
    LET events == SelectSeq(w.log, LAMBDA e : e[1] = kind)
    IN  [ j \in 1..Len(events) |-> events[j][2] ]

\* the place of a kind of step in the life of a worker
StepRank(kind) ==
    CASE kind = "pre" -> 1 [] kind = "wait" -> 2 [] kind = "sync" -> 3
      [] kind = "done" -> 4 [] kind = "send" -> 5

Did(w, kinds) == \E e \in Range(w.log) : e[1] \in kinds

\* C21: the steps of one worker are strictly ordered: the PRE commands run in PRE-map
\* order and are all finished before the worker touches the wait group or starts a
\* SYNC command; the SYNC commands run in SYNC-map order; done (sync workers only) and
\* the send come only after the last SYNC command.
C21_StepOrder ==
    \A i \in 1..Len(workers) :
        LET w == workers[i]
        IN  /\ IsPrefix(NamesOf(w, "pre"), Keys(w.pre_cmds))
            /\ IsPrefix(NamesOf(w, "sync"), Keys(w.sync_cmds))
            /\ \A j, k \in 1..Len(w.log) :
                  j < k => StepRank(w.log[j][1]) <= StepRank(w.log[k][1])
            /\ Did(w, { "wait", "sync", "done", "send" }) => NamesOf(w, "pre") = Keys(w.pre_cmds)
            /\ Did(w, { "done", "send" }) => NamesOf(w, "sync") = Keys(w.sync_cmds)
            /\ Did(w, { "done" }) => w.sync_host
            /\ Did(w, { "wait" }) => ~w.sync_host

\* a sync worker and a non-sync worker have each run two PRE commands and two SYNC
\* commands and sent their batches
C21_Witness ==
    \E i, j \in 1..Len(workers) :
        /\ workers[i].sync_host /\ ~workers[j].sync_host
        /\ workers[i].at = "exited" /\ workers[j].at = "exited"
        /\ Len(workers[i].pre_cmds) = 2 /\ Len(workers[i].sync_cmds) = 2
        /\ Len(workers[j].pre_cmds) = 2 /\ Len(workers[j].sync_cmds) = 2
        /\ Keys(workers[i].pre_cmds) # Keys(workers[i].sync_cmds)

\* ---------------------------------------------------------------------- C22

\* C22: a selector token that starts with `!` adds no hostname to the working set,
\* also when the whole token is a key of the hostlist table: the working set of a
\* selector is the expansion of its positive tokens, and every resolved host comes
\* from it.
C22_NegativeTokensNotExpanded ==
    pc = "plan" =>
        /\ expanded(config, host_cmds.hosts) = expanded(config, Positives(host_cmds.hosts))
        /\ Range(Keys(locals.actual_hosts))
              \subseteq Range(Expansion(config, Positives(host_cmds.hosts)))

\* ---------------------------------------------------------------------- C23

\* the names an added exclusion token may carry
ExcludableNames == HostNames \cup { << "c" >> }

\* C23: an exclusion token that matches no expanded hostname is a no-op: adding `!x`
\* at any place of the host selector, x not among the hostnames expanded from the
\* positive tokens, leaves the resolved hosts, and the plan, unchanged.
C23_UnmatchedExclusionIsNoOp ==
    pc = "plan" =>
        \A x \in ExcludableNames, k \in 0..Len(host_cmds.hosts) :
            x \notin Range(Expansion(config, Positives(host_cmds.hosts))) =>
                LET sel == as_set(InsertAt(host_cmds.hosts, k, << "!" >> \o x))
                IN  /\ actual_hosts(config, sel) = locals.actual_hosts
                    /\ to_host_map(config, [ host_cmds EXCEPT !.hosts = sel ]) = plan


\* ---------------------------------------------------------------------- C24

\* the i-th entry of hosts_map is a sync host: the test of line 169
IsSyncEntry(i) == ContainsKey(mx.sync_hosts, mx.hosts_map[i][1])

\* every sync host precedes every non-sync host in the order the spawn loop iterates
SyncHostsFirst ==
    \A i, j \in 1..Len(mx.hosts_map) : (IsSyncEntry(i) /\ ~IsSyncEntry(j)) => i < j

\* the sync workers that have not called done
PendingSyncWorkers == { j \in 1..Len(workers) : workers[j].sync_host /\ ~CalledDone(workers[j]) }

\* C24: when every sync host precedes every non-sync host in the iteration order of
\* the plan, the barrier holds in every interleaving: when a non-sync worker exists,
\* every planned sync host has a worker spawned (and so added) before it and the
\* counter is the number of sync workers still to call done; no non-sync worker is
\* past wait() or has run a SYNC command before every sync worker has called done.
C24_SyncFirstBarrier ==
    (Started /\ SyncHostsFirst) =>
        \A i \in 1..Len(workers) :
            ~workers[i].sync_host =>
                /\ \A h \in SyncPlanned : \E j \in WorkersOf(h) : j < i /\ workers[j].sync_host
                /\ wg = Cardinality(PendingSyncWorkers)
                /\ (Released(i) \/ StartedSync(workers[i])) =>
                      \A h \in SyncPlanned : \E j \in WorkersOf(h) : CalledDone(workers[j])

\* the sync host is planned before the non-sync host, and the non-sync worker stands
\* at wait() with its PRE commands run while the sync worker has not called done
C24_Witness ==
    /\ Started
    /\ SyncHostsFirst
    /\ \E i, j \in 1..Len(workers) :
          /\ ~workers[i].sync_host
          /\ workers[i].at = "wait"
          /\ Len(workers[i].sync_cmds) >= 1
          /\ workers[j].sync_host
          /\ ~CalledDone(workers[j])
          /\ wg > 0


\* ---------------------------------------------------------------------- C25

\* the calls of done a worker has made
Dones(w) == Cardinality({ j \in 1..Len(w.log) : w.log[j] = << "done" >> })

\* the add of the entry the spawn loop stands at has been made, its thread not yet spawned
AddedNotSpawned == IF added THEN 1 ELSE 0

\* C25: in every state of the engine the counter of the wait group is non-negative and
\* is the number of sync workers added that have not yet called done; add is called
\* for sync hosts only; a sync worker calls done once, after its own add (the counter is
\* positive when it does), a non-sync worker never; the counter is zero once the
\* spawn loop is over and every spawned worker has sent its batch.
C25_WaitGroupCounter ==
    Started =>
        /\ wg \in Nat
        /\ wg = Cardinality(PendingSyncWorkers) + AddedNotSpawned
        /\ added => (AtEntry /\ IsSyncEntry(idx))
        /\ \A i \in 1..Len(workers) :
              LET w == workers[i]
              IN  /\ Dones(w) <= 1
                  /\ ~w.sync_host => Dones(w) = 0
                  /\ (w.sync_host /\ w.at \in { "send", "exited" }) => Dones(w) = 1
                  /\ w.at = "done" => (w.sync_host /\ wg > 0)
        /\ (SpawnLoopOver /\ \A i \in 1..Len(workers) : Exited(i)) => wg = 0

\* of two sync workers one has called done and one has not, beside a non-sync worker,
\* and the counter stands at one
C25_Witness ==
    /\ SpawnLoopOver
    /\ wg = 1
    /\ \E i, j, k \in 1..Len(workers) :
          /\ workers[i].sync_host /\ CalledDone(workers[i])
          /\ workers[j].sync_host /\ ~CalledDone(workers[j])
          /\ ~workers[k].sync_host


\* ---------------------------------------------------------------------- C26

\* the hosts a selector resolves after its own exclusions: the names of its expansion
\* that it does not exclude, that are hostlist keys and that have a hosts record
Resolves(sel) ==
    { h \in Range(Expansion(config, sel)) : /\ h \notin Excluded(sel)
                                            /\ h \in DOMAIN config.hostlist
                                            /\ h \in DOMAIN config.hosts }

\* C26: exclusion is per selector: the resolved primary hosts are what the hosts
\* selector resolves under its own exclusions and the resolved sync hosts what the
\* sync_hosts selector resolves under its own; a name excluded in one selector is
\* absent from that selector's hosts and is still a key of the plan when the other
\* selector resolves it; the keys of the plan are the hosts that at least one of the
\* two selectors resolves.
C26_ExclusionPerSelector ==
    pc = "plan" =>
        /\ Range(Keys(locals.actual_hosts)) = Resolves(host_cmds.hosts)
        /\ Range(Keys(locals.actual_sync_hosts)) = Resolves(host_cmds.sync_hosts)
        /\ \A x \in Excluded(host_cmds.hosts) :
              /\ x \notin Range(Keys(locals.actual_hosts))
              /\ x \in Resolves(host_cmds.sync_hosts) =>
                    (x \in Range(Keys(locals.actual_sync_hosts)) /\ x \in Range(Keys(plan)))
        /\ \A x \in Excluded(host_cmds.sync_hosts) :
              /\ x \notin Range(Keys(locals.actual_sync_hosts))
              /\ x \in Resolves(host_cmds.hosts) =>
                    (x \in Range(Keys(locals.actual_hosts)) /\ x \in Range(Keys(plan)))
        /\ Range(Keys(plan)) = Resolves(host_cmds.hosts) \cup Resolves(host_cmds.sync_hosts)

\* the hosts selector excludes a name that it expands and that the sync selector
\* resolves: the name is no primary host, it is a sync host and a key of the plan
C26_Witness ==
    /\ pc = "plan"
    /\ \E x \in Excluded(host_cmds.hosts) :
          /\ x \in Range(Expansion(config, host_cmds.hosts))
          /\ x \notin Range(Keys(locals.actual_hosts))
          /\ x \in Range(Keys(locals.actual_sync_hosts))
          /\ x \in Range(Keys(plan))
    /\ locals.actual_hosts # << >>

====
